---- MODULE Spec2Model ----
\* A model of InnerEye/ML/model_training.py: the training driver model_train,
\* run by every process of one (possibly distributed) training run, together
\* with the helpers it calls (is_rank_zero, upload_output_file_as_temp,
\* write_args_file, create_lightning_trainer, start_resource_monitor).
\*
\* The Lightning trainer, the AzureML run context and the per-subject loggers
\* are collaborators outside the file. They are modelled by their effect on
\* the state that model_train reads afterwards: the DDP launcher starts one
\* worker per further GPU with LOCAL_RANK set, trainer.fit returns only after
\* all ranks have joined, it may raise, and it changes environment variables.
EXTENDS Integers, Sequences, FiniteSets, TLC

\* ---------------------------------------------------------------- bounds
MaxNodes == 2
MaxDevices == 2
MaxWorld == 2
MaxRows == 1

\* ------------------------------------------------------------- constants
TEMP_PREFIX == "temp/"
TRAIN == "Train"
VAL == "Val"
Modes == <<TRAIN, VAL>>
SUBJECT_OUTPUT_PER_RANK_PREFIX == "rank_"
RECOVERY_CHECKPOINT_FILE_NAME == "recovery"
LINESEP == "\n"
HEADER == "subject,output"

\* The three kinds of run the isinstance tests of model_train tell apart:
\*   "Segmentation": config is a SegmentationModelBase (hence a ModelConfigBase
\*                   and a DeepLearningConfig), the model is no ScalarLightning
\*   "Scalar":       config is a ModelConfigBase and DeepLearningConfig, the
\*                   model is a ScalarLightning
\*   "Container":    config is no DeepLearningConfig, the model is a plain
\*                   Lightning module of a LightningContainer
Kinds == {"Segmentation", "Scalar", "Container"}
IsDeepLearningConfig(kind) == kind \in {"Segmentation", "Scalar"}
IsSegmentationModelBase(kind) == kind = "Segmentation"
IsModelConfigBase(kind) == kind \in {"Segmentation", "Scalar"}
IsScalarLightning(kind) == kind = "Scalar"

\* ------------------------------------------------------ paths and strings
\* A Path is the sequence of its components; str(path) joins them with "/".
RECURSIVE PathStr(_)
PathStr(path) ==
    IF Len(path) = 0 THEN "."
    ELSE IF Len(path) = 1 THEN path[1]
    ELSE PathStr(SubSeq(path, 1, Len(path) - 1)) \o "/" \o path[Len(path)]

\* Path.relative_to(base): the components of path after those of base.
RelativeTo(path, base) == SubSeq(path, Len(base) + 1, Len(path))

\* path / name, keyed by the string of the resulting path.
Under(path, name) == PathStr(path) \o "/" \o name

StartsWith(s, prefix) ==
    Len(s) >= Len(prefix) /\ SubSeq(s, 1, Len(prefix)) = prefix

OutputsFolder == <<"outputs">>
CheckpointFolder == <<"outputs", "checkpoints">>
RecoveryPath == <<"outputs", "checkpoints", "recovery.ckpt">>
NoPath == <<>>

\* str(config) and str(lightning_container): two different texts.
StrOf(obj) == "str(" \o obj \o ")"

\* -------------------------------------------------------- CSV file texts
\* A text is a sequence of tokens: a token is the line separator or the text
\* of one line.

\* str.splitlines(): the lines of a text, without the separators.
RECURSIVE SplitLines(_)
SplitLines(text) ==
    IF Len(text) = 0 THEN <<>>
    ELSE IF text[1] = LINESEP THEN <<"">> \o SplitLines(Tail(text))
    ELSE IF Len(text) = 1 THEN <<text[1]>>
    ELSE IF text[2] = LINESEP THEN <<text[1]>> \o SplitLines(SubSeq(text, 3, Len(text)))
    ELSE SplitLines(<<text[1] \o text[2]>> \o SubSeq(text, 3, Len(text)))

\* os.linesep.join(lines): the lines with a separator between neighbours.
RECURSIVE JoinLines(_)
JoinLines(lines) ==
    IF Len(lines) = 0 THEN <<>>
    ELSE IF Len(lines) = 1 THEN <<lines[1]>>
    ELSE <<lines[1], LINESEP>> \o JoinLines(Tail(lines))

\* get_subject_output_file_per_rank(rank)
get_subject_output_file_per_rank(rank) ==
    SUBJECT_OUTPUT_PER_RANK_PREFIX \o ToString(rank)

\* The csv_path of the per-subject logger of a rank for one mode.
csv_path(mode, rank) ==
    OutputsFolder \o <<mode, get_subject_output_file_per_rank(rank)>>

\* What the per-subject logger of a rank has written when fit returns: the
\* column header and one line per subject, every line ended by a separator.
RowText(mode, rank, i) == mode \o ToString(rank) \o "_" \o ToString(i)
RECURSIVE RowLines(_, _, _)
RowLines(mode, rank, n) ==
    IF n = 0 THEN <<>>
    ELSE RowLines(mode, rank, n - 1) \o <<RowText(mode, rank, n), LINESEP>>
SubjectOutputText(mode, rank, n) == <<HEADER, LINESEP>> \o RowLines(mode, rank, n)

\* ------------------------------------------------------ the inputs of a run
\* config/lightning_container (one object for an InnerEye model config): the
\* fields that model_train and create_lightning_trainer read, plus what the
\* machine and the callers provide (device_count, is_azureml_run, the recovery
\* checkpoint found by the checkpoint handler, the subjects seen per rank:
\* none or MaxRows), whether Lightning drops its seed variable during fit, and
\* the variable in which the launcher of the run tells a worker its rank:
\* LOCAL_RANK (the local rank, Lightning's DDP script launcher) or GLOBAL_RANK
\* (the global rank), the two variables is_rank_zero looks at.
\* A run on several nodes has a GPU on each.
Max(a, b) == IF a >= b THEN a ELSE b

\* Variant: a limit of 0 GPUs is taken for no limit.
NumGpusZeroIsNoLimit(c) ==
    LET available == IF c.use_gpu THEN c.device_count ELSE 0
    IN  IF 0 < c.max_num_gpus /\ c.max_num_gpus < available
        THEN c.max_num_gpus
        ELSE available

\* Lines 109-113: the number of GPUs handed to the trainer.
NumGpus(c) ==
    LET available == IF c.use_gpu THEN c.device_count ELSE 0
    IN  IF 0 <= c.max_num_gpus /\ c.max_num_gpus < available
        THEN c.max_num_gpus
        ELSE available

\* One training process per GPU on every node, one process on a node without.
ProcsPerNode(c) == Max(1, NumGpus(c))
World(c) == c.num_nodes * ProcsPerNode(c)
Procs(c) == 0 .. (World(c) - 1)
Nodes(c) == 0 .. (c.num_nodes - 1)
NodeOf(c, p) == p \div ProcsPerNode(c)
LocalOf(c, p) == p % ProcsPerNode(c)
IsLauncher(c, p) == LocalOf(c, p) = 0

RunConfigs ==
    { c \in [ num_nodes : 1 .. MaxNodes,
              use_gpu : {TRUE},
              device_count : 0 .. MaxDevices,
              max_num_gpus : {-1},
              use_mixed_precision : {FALSE},
              pl_deterministic : {TRUE},
              recovery_checkpoint_save_interval : {2},
              kind : Kinds,
              is_azureml_run : BOOLEAN,
              monitoring_interval_seconds : {0, 1},
              recovery_path : {NoPath, RecoveryPath},
              random_seed : {42},
              lightning_removes_seed : BOOLEAN,
              rank_variable : {"LOCAL_RANK", "GLOBAL_RANK"},
              rows : [0 .. (MaxWorld - 1) -> {0, MaxRows}] ] :
        /\ World(c) <= MaxWorld
        /\ c.num_nodes > 1 => c.device_count > 0
        /\ ProcsPerNode(c) = 1 => c.rank_variable = "LOCAL_RANK"
        /\ \A r \in 0 .. (MaxWorld - 1) :
             (r >= World(c) \/ ~IsScalarLightning(c.kind)) => c.rows[r] = 0 }

\* The inputs over which create_lightning_trainer is looked at on its own: a
\* run on one node, all values of use_gpu, of the number of devices, of
\* max_num_gpus (negative, 0, below, at and above the number of devices), of
\* use_mixed_precision and of pl_deterministic.
TrainerConfigs ==
    { c \in [ num_nodes : {1},
              use_gpu : BOOLEAN,
              device_count : 0 .. MaxDevices,
              max_num_gpus : -1 .. (MaxDevices + 1),
              use_mixed_precision : BOOLEAN,
              pl_deterministic : BOOLEAN,
              recovery_checkpoint_save_interval : {2},
              kind : {"Container"},
              is_azureml_run : {FALSE},
              monitoring_interval_seconds : {0},
              recovery_path : {NoPath, RecoveryPath},
              random_seed : {42},
              lightning_removes_seed : {FALSE},
              rank_variable : {"LOCAL_RANK"},
              rows : [0 .. (MaxWorld - 1) -> {0}] ] : TRUE }

\* ------------------------------------------------------------ environment
\* os.environ is a dictionary: a function whose domain is the set variables.
EmptyEnviron == [k \in {} |-> ""]
Setenv(env, k, v) == [x \in (DOMAIN env) \cup {k} |-> IF x = k THEN v ELSE env[x]]
Popenv(env, k) == [x \in (DOMAIN env) \ {k} |-> env[x]]
\* os.getenv(k, default)
Getenv(env, k, default) == IF k \in DOMAIN env THEN env[k] ELSE default
\* dict.update(other)
Update(env, other) ==
    [x \in (DOMAIN env) \cup (DOMAIN other) |->
        IF x \in DOMAIN other THEN other[x] ELSE env[x]]

\* Variant: the node rank is not looked at.
is_rank_zero_ignoring_node(env) ==
    /\ "GLOBAL_RANK" \notin DOMAIN env
    /\ "LOCAL_RANK" \notin DOMAIN env

\* Variant: LOCAL_RANK is not looked at.
is_rank_zero_ignoring_local_rank(env) ==
    /\ "GLOBAL_RANK" \notin DOMAIN env
    /\ Getenv(env, "NODE_RANK", "0") = "0"

\* is_rank_zero(): GLOBAL_RANK and LOCAL_RANK unset, NODE_RANK unset or "0".
is_rank_zero(env) ==
    /\ "GLOBAL_RANK" \notin DOMAIN env
    /\ "LOCAL_RANK" \notin DOMAIN env
    /\ Getenv(env, "NODE_RANK", "0") = "0"

\* The environment a launching process starts with on a node. In a multi-node
\* run set_environment_variables_for_multi_node has set NODE_RANK; a seed of an
\* earlier run may be left in PL_GLOBAL_SEED.
LauncherEnviron(c, node) ==
    IF c.num_nodes > 1
    THEN Setenv(Setenv(EmptyEnviron, "PL_GLOBAL_SEED", "old"), "NODE_RANK", ToString(node))
    ELSE Setenv(EmptyEnviron, "PL_GLOBAL_SEED", "old")

\* seed_everything(seed) leaves the seed in the environment.
seed_everything(env, seed) == Setenv(env, "PL_GLOBAL_SEED", ToString(seed))

\* What the DDP launcher writes to os.environ of the launching process in fit:
\* the node rank, the world size and the launching process's own rank.
DdpEnviron(c, env, node) ==
    Setenv(Setenv(Setenv(env, "NODE_RANK", ToString(node)),
                  "WORLD_SIZE", ToString(World(c))),
           c.rank_variable,
           IF c.rank_variable = "LOCAL_RANK" THEN "0"
           ELSE ToString(node * ProcsPerNode(c)))

\* The environment of a spawned worker: a copy of the launcher's with its own
\* rank, local or global.
WorkerEnviron(c, launcherEnv, node, local) ==
    Setenv(launcherEnv, c.rank_variable,
           IF c.rank_variable = "LOCAL_RANK" THEN ToString(local)
           ELSE ToString(node * ProcsPerNode(c) + local))

\* --------------------------------------------------------------- trainer
NoTrainer ==
    [ created |-> FALSE, callbacks |-> <<>>, gpus |-> 0, accelerator |-> "None",
      precision |-> 0, deterministic |-> FALSE, benchmark |-> FALSE,
      num_nodes |-> 0, resume_from_checkpoint |-> "None" ]

\* ModelCheckpoint(dirpath=..., save_last=True)
BestCheckpointCallback(c) ==
    [ dirpath |-> PathStr(CheckpointFolder), filename |-> "None",
      save_last |-> TRUE, period |-> 1 ]

\* ModelCheckpoint(dirpath=..., filename=RECOVERY_CHECKPOINT_FILE_NAME, period=...)
RecoveryCheckpointCallback(c) ==
    [ dirpath |-> PathStr(CheckpointFolder), filename |-> RECOVERY_CHECKPOINT_FILE_NAME,
      save_last |-> FALSE, period |-> c.recovery_checkpoint_save_interval ]

\* Variant: the recovery checkpoint is not passed on.
ResumeNever(path) == "None"

\* str(resume_from_checkpoint) if resume_from_checkpoint else None
ResumeFromCheckpoint(path) == IF path # NoPath THEN PathStr(path) ELSE "None"

\* Variant: the precision follows use_mixed_precision on CPU too.
PrecisionIgnoringCpu(num_gpus, use_mixed_precision) ==
    IF use_mixed_precision THEN 16 ELSE 32

\* Line 123: 32 bit on CPU, otherwise by use_mixed_precision.
Precision(num_gpus, use_mixed_precision) ==
    IF num_gpus = 0 THEN 32
    ELSE IF use_mixed_precision THEN 16 ELSE 32

create_lightning_trainer(c, resume_from_checkpoint, num_nodes) ==
    LET num_gpus == NumGpus(c)
    IN  [ created |-> TRUE,
          callbacks |-> <<BestCheckpointCallback(c), RecoveryCheckpointCallback(c)>>,
          gpus |-> num_gpus,
          accelerator |-> IF num_gpus > 1 THEN "ddp" ELSE "None",
          precision |-> Precision(num_gpus, c.use_mixed_precision),
          deterministic |-> c.pl_deterministic,
          benchmark |-> ~c.pl_deterministic,
          num_nodes |-> num_nodes,
          resume_from_checkpoint |-> ResumeFromCheckpoint(resume_from_checkpoint) ]

\* ------------------------------------------------------------- the state
VARIABLES
    config,           \* the inputs of the run, the same for every process
    pc,               \* per process: its position in model_train
    environ,          \* per process: os.environ
    old_environ,      \* per process: the snapshot of line 194
    gate_environ,     \* per process: os.environ when is_rank_zero() was called
    checkpoint_path,  \* per process: result of get_recovery_path_train()
    handler_calls,    \* per process: the calls made on checkpoint_handler, in order
    trainer,          \* per process: the trainer created in line 196
    resource_monitor, \* per process: "none", "running" or "killed"
    done,             \* per process: the steps of model_train it has run
    fit_calls,        \* per process: number of calls of trainer.fit
    exception,        \* per process: where an exception was raised, or "none"
    world_size,       \* per process: the local variable of line 236
    global_rank,      \* per process: lightning_model.global_rank
    dl,               \* per process: iterations of the download loop done
    outputs_dir,      \* per node: does the outputs folder exist
    args_file,        \* per node: args.txt in the outputs folder
    args_writers,     \* the processes that have written args.txt
    files,            \* per node: the per-rank files on disk, path -> text
    uploaded,         \* the AzureML run: uploaded name -> text
    requested,        \* the names rank 0 has asked download_file for, in order
    temp_order,       \* per mode: the per-rank files in the order rglob gave
    result_file       \* per mode: the final metrics file on the disk of rank 0

vars ==
    << config, pc, environ, old_environ, gate_environ, checkpoint_path,
       handler_calls, trainer,
       resource_monitor, done, fit_calls, exception, world_size, global_rank, dl,
       outputs_dir, args_file, args_writers, files, uploaded, requested,
       temp_order, result_file >>

NoFiles == [k \in {} |-> <<>>]
NoFile == [exists |-> FALSE, text |-> <<>>]

InitFor(configs) ==
    \E c \in configs, stale \in BOOLEAN :
        /\ config = c
        /\ pc = [p \in Procs(c) |-> IF IsLauncher(c, p) THEN "start" ELSE "unborn"]
        /\ environ = [p \in Procs(c) |->
                        IF IsLauncher(c, p) THEN LauncherEnviron(c, NodeOf(c, p))
                        ELSE EmptyEnviron]
        /\ old_environ = [p \in Procs(c) |-> EmptyEnviron]
        /\ gate_environ = [p \in Procs(c) |-> EmptyEnviron]
        /\ checkpoint_path = [p \in Procs(c) |-> NoPath]
        /\ handler_calls = [p \in Procs(c) |-> <<>>]
        /\ trainer = [p \in Procs(c) |-> NoTrainer]
        /\ resource_monitor = [p \in Procs(c) |-> "none"]
        /\ done = [p \in Procs(c) |-> {}]
        /\ fit_calls = [p \in Procs(c) |-> 0]
        /\ exception = [p \in Procs(c) |-> "none"]
        /\ world_size = [p \in Procs(c) |-> 0]
        /\ global_rank = [p \in Procs(c) |-> 0]
        /\ dl = [p \in Procs(c) |-> 0]
        /\ outputs_dir = [n \in Nodes(c) |-> stale]
        /\ args_file = [n \in Nodes(c) |->
                          [exists |-> stale, text |-> IF stale THEN "stale" ELSE ""]]
        /\ args_writers = {}
        /\ files = [n \in Nodes(c) |-> NoFiles]
        /\ uploaded = NoFiles
        /\ requested = <<>>
        /\ temp_order = [m \in {TRAIN, VAL} |-> <<>>]
        /\ result_file = [m \in {TRAIN, VAL} |-> NoFile]

Init == InitFor(RunConfigs)

Node(p) == NodeOf(config, p)

\* ------------------------------------------------- lines 185-204: set-up
\* Lines 186-195: ask the checkpoint handler for the recovery checkpoint,
\* snapshot the environment, seed.
StartTraining(p) ==
    /\ p \in Procs(config)
    /\ pc[p] = "start"
    /\ checkpoint_path' = [checkpoint_path EXCEPT ![p] = config.recovery_path]
    /\ handler_calls' = [handler_calls EXCEPT ![p] = Append(@, "get_recovery_path_train")]
    /\ old_environ' = [old_environ EXCEPT ![p] = environ[p]]
    /\ environ' = [environ EXCEPT ![p] = seed_everything(environ[p], config.random_seed)]
    /\ done' = [done EXCEPT ![p] = @ \cup {"get_recovery_path_train"}]
    /\ pc' = [pc EXCEPT ![p] = "create_trainer"]
    /\ UNCHANGED << config, exception, gate_environ, trainer, resource_monitor, fit_calls,
                    world_size, global_rank, dl, outputs_dir, args_file,
                    args_writers, files, uploaded, requested, temp_order,
                    result_file >>

\* Lines 196-204: create the trainer.
CreateTrainer(p) ==
    /\ p \in Procs(config)
    /\ pc[p] = "create_trainer"
    /\ trainer' = [trainer EXCEPT ![p] =
                     create_lightning_trainer(config, checkpoint_path[p], config.num_nodes)]
    /\ pc' = [pc EXCEPT ![p] = "bookkeeping"]
    /\ UNCHANGED << config, handler_calls,
                    exception, environ, old_environ, gate_environ, checkpoint_path,
                    resource_monitor, done, fit_calls, world_size, global_rank, dl,
                    outputs_dir, args_file, args_writers, files, uploaded,
                    requested, temp_order, result_file >>

\* The Trainer constructor rejects the container's trainer arguments
\* (DummyContainerWithInvalidTrainerArguments): the exception leaves model_train.
CreateTrainerRaises(p) ==
    /\ p \in Procs(config)
    /\ pc[p] = "create_trainer"
    /\ exception' = [exception EXCEPT ![p] = "create_trainer"]
    /\ pc' = [pc EXCEPT ![p] = "raised"]
    /\ UNCHANGED << config, handler_calls,
                    environ, old_environ, gate_environ, checkpoint_path,
                    trainer, resource_monitor, done, fit_calls, world_size,
                    global_rank, dl, outputs_dir, args_file, args_writers, files,
                    uploaded, requested, temp_order, result_file >>

\* ------------------------------------------- lines 206-228: bookkeeping
\* write_args_file(config, outputs_folder): the text written to args.txt.
write_args_file(obj) == [exists |-> TRUE, text |-> StrOf(obj)]

\* Variant: config is written whatever its type.
ArgsObjectAlwaysConfig(kind) == "config"

\* Line 209: the object whose string goes to args.txt.
ArgsObject(kind) == IF IsDeepLearningConfig(kind) THEN "config" ELSE "lightning_container"

\* Lines 213-228: the bookkeeping steps after args.txt, each under its test.
BookkeepingSteps(c) ==
    {"write_args_file"}
    \cup (IF IsSegmentationModelBase(c.kind) THEN {"visualize_random_crops"} ELSE {})
    \cup (IF IsModelConfigBase(c.kind) THEN {"model_summary"} ELSE {})
    \cup (IF c.monitoring_interval_seconds > 0 THEN {"start_resource_monitor"} ELSE {})

Bookkeeping(p) ==
    /\ p \in Procs(config)
    /\ pc[p] = "bookkeeping"
    /\ gate_environ' = [gate_environ EXCEPT ![p] = environ[p]]
    /\ IF is_rank_zero(environ[p])
       THEN /\ outputs_dir' = [outputs_dir EXCEPT ![Node(p)] = TRUE]
            /\ args_file' = [args_file EXCEPT ![Node(p)] =
                                write_args_file(ArgsObject(config.kind))]
            /\ args_writers' = args_writers \cup {p}
            /\ done' = [done EXCEPT ![p] = @ \cup BookkeepingSteps(config)]
            /\ resource_monitor' = [resource_monitor EXCEPT ![p] =
                  IF config.monitoring_interval_seconds > 0 THEN "running" ELSE @]
       ELSE UNCHANGED << outputs_dir, args_file, args_writers, done, resource_monitor >>
    /\ pc' = [pc EXCEPT ![p] = "fit"]
    /\ UNCHANGED << config, handler_calls,
                    exception, environ, old_environ, checkpoint_path, trainer,
                    fit_calls, world_size, global_rank, dl, files, uploaded,
                    requested, temp_order, result_file >>

\* ------------------------------------------------- line 233: trainer.fit
\* The workers the DDP launcher starts from inside fit: the other local ranks
\* of the node of a launching process.
WorkersOf(p) ==
    IF IsLauncher(config, p)
    THEN { q \in Procs(config) : Node(q) = Node(p) /\ q # p }
    ELSE {}

\* trainer.fit is called. In a run with several processes the launcher sets the
\* DDP variables in its own environment and starts its workers, which run the
\* whole script, model_train included, with LOCAL_RANK set.
FitStart(p) ==
    /\ p \in Procs(config)
    /\ pc[p] = "fit"
    /\ fit_calls' = [fit_calls EXCEPT ![p] = @ + 1]
    /\ LET env == IF World(config) > 1 /\ IsLauncher(config, p)
                  THEN DdpEnviron(config, environ[p], Node(p))
                  ELSE environ[p]
       IN  /\ environ' = [q \in Procs(config) |->
                            IF q = p THEN env
                            ELSE IF q \in WorkersOf(p)
                                 THEN WorkerEnviron(config, env, Node(q), LocalOf(config, q))
                                 ELSE environ[q]]
           /\ pc' = [q \in Procs(config) |->
                       IF q = p THEN "in_fit"
                       ELSE IF q \in WorkersOf(p) THEN "start"
                       ELSE pc[q]]
    /\ UNCHANGED << config, handler_calls,
                    exception, old_environ, gate_environ, checkpoint_path, trainer,
                    resource_monitor, done, world_size, global_rank, dl,
                    outputs_dir, args_file, args_writers, files, uploaded,
                    requested, temp_order, result_file >>

\* The global rank Lightning gives a process: node rank * processes per node
\* + local rank.
LightningGlobalRank(c, p) == NodeOf(c, p) * ProcsPerNode(c) + LocalOf(c, p)

\* The per-subject loggers of a ScalarLightning model write one file per mode
\* and rank to the disk of the node.
WriteSubjectOutputs(fs, c, rank) ==
    IF IsScalarLightning(c.kind)
    THEN [k \in (DOMAIN fs) \cup { PathStr(csv_path(m, rank)) : m \in {TRAIN, VAL} } |->
            IF k = PathStr(csv_path(TRAIN, rank))
            THEN SubjectOutputText(TRAIN, rank, c.rows[rank])
            ELSE IF k = PathStr(csv_path(VAL, rank))
            THEN SubjectOutputText(VAL, rank, c.rows[rank])
            ELSE fs[k]]
    ELSE fs

\* trainer.fit returns: every rank has joined the training, the model knows
\* its global rank, the per-subject files are on disk. Lightning has changed
\* the environment and may also have removed a variable.
FitReturn(p) ==
    /\ p \in Procs(config)
    /\ pc[p] = "in_fit"
    /\ \A q \in Procs(config) : fit_calls[q] > 0 /\ pc[q] # "raised"
    /\ global_rank' = [global_rank EXCEPT ![p] = LightningGlobalRank(config, p)]
    /\ files' = [files EXCEPT ![Node(p)] =
                    WriteSubjectOutputs(@, config, LightningGlobalRank(config, p))]
    /\ environ' = [environ EXCEPT ![p] =
                      IF config.lightning_removes_seed
                      THEN Popenv(@, "PL_GLOBAL_SEED") ELSE @]
    /\ pc' = [pc EXCEPT ![p] = "close_loggers"]
    /\ UNCHANGED << config, handler_calls,
                    exception, old_environ, gate_environ, checkpoint_path, trainer,
                    resource_monitor, done, fit_calls, world_size, dl, outputs_dir,
                    args_file, args_writers, uploaded, requested, temp_order,
                    result_file >>

\* Variant: the failure of trainer.fit is caught and fit is tried again.
FitRaisesAndRetries(p) ==
    /\ p \in Procs(config)
    /\ pc[p] = "in_fit"
    /\ exception' = [exception EXCEPT ![p] = "fit"]
    /\ pc' = [pc EXCEPT ![p] = "fit"]
    /\ UNCHANGED << config, handler_calls,
                    environ, old_environ, gate_environ, checkpoint_path,
                    trainer, resource_monitor, done, fit_calls, world_size,
                    global_rank, dl, outputs_dir, args_file, args_writers, files,
                    uploaded, requested, temp_order, result_file >>

\* trainer.fit raises: nothing in model_train catches it.
FitRaises(p) ==
    /\ p \in Procs(config)
    /\ pc[p] = "in_fit"
    /\ exception' = [exception EXCEPT ![p] = "fit"]
    /\ pc' = [pc EXCEPT ![p] = "raised"]
    /\ UNCHANGED << config, handler_calls,
                    environ, old_environ, gate_environ, checkpoint_path,
                    trainer, resource_monitor, done, fit_calls, world_size,
                    global_rank, dl, outputs_dir, args_file, args_writers, files,
                    uploaded, requested, temp_order, result_file >>

\* --------------------------------------- lines 234-248: after trainer.fit
\* getattr(trainer, "world_size", 0)
TrainerWorldSize(c) == World(c)

\* Line 240: the condition under which a rank uploads its two files.
UploadCondition(c, ws) ==
    c.is_azureml_run /\ ws > 1 /\ IsScalarLightning(c.kind)

\* Lines 258-259: the condition under which rank 0 downloads.
DownloadCondition(c, ws) ==
    (ws # 0 /\ IsScalarLightning(c.kind)) /\ (c.is_azureml_run /\ ws > 1)

\* Line 258: the condition under which rank 0 concatenates.
ConcatenateCondition(c, ws) == ws # 0 /\ IsScalarLightning(c.kind)

\* Lines 234-237: close the loggers, read world_size.
CloseLoggers(p) ==
    /\ p \in Procs(config)
    /\ pc[p] = "close_loggers"
    /\ done' = [done EXCEPT ![p] = @ \cup {"close_loggers"}]
    /\ world_size' = [world_size EXCEPT ![p] = TrainerWorldSize(config)]
    /\ pc' = [pc EXCEPT ![p] =
                IF UploadCondition(config, TrainerWorldSize(config))
                THEN "upload_train" ELSE "exit_check"]
    /\ UNCHANGED << config, handler_calls,
                    exception, environ, old_environ, gate_environ, checkpoint_path,
                    trainer, resource_monitor, fit_calls, global_rank, dl,
                    outputs_dir, args_file, args_writers, files, uploaded,
                    requested, temp_order, result_file >>

\* Variant: the upload name without the temp/ prefix.
UploadNameNoPrefix(file_path, outputs_folder) ==
    PathStr(RelativeTo(file_path, outputs_folder))

\* upload_output_file_as_temp(file_path, outputs_folder): the upload name.
UploadName(file_path, outputs_folder) ==
    TEMP_PREFIX \o PathStr(RelativeTo(file_path, outputs_folder))

\* RUN_CONTEXT.upload_file(name, path): the run holds the text under the name.
upload_output_file_as_temp(run, fs, file_path, outputs_folder) ==
    LET name == UploadName(file_path, outputs_folder)
    IN  [k \in (DOMAIN run) \cup {name} |->
            IF k = name THEN fs[PathStr(file_path)] ELSE run[k]]

\* Line 241
UploadTrain(p) ==
    /\ p \in Procs(config)
    /\ pc[p] = "upload_train"
    /\ uploaded' = upload_output_file_as_temp(uploaded, files[Node(p)],
                        csv_path(TRAIN, global_rank[p]), OutputsFolder)
    /\ pc' = [pc EXCEPT ![p] = "upload_val"]
    /\ UNCHANGED << config, handler_calls,
                    exception, environ, old_environ, gate_environ, checkpoint_path,
                    trainer, resource_monitor, done, fit_calls, world_size,
                    global_rank, dl, outputs_dir, args_file, args_writers, files,
                    requested, temp_order, result_file >>

\* Line 242
UploadVal(p) ==
    /\ p \in Procs(config)
    /\ pc[p] = "upload_val"
    /\ uploaded' = upload_output_file_as_temp(uploaded, files[Node(p)],
                        csv_path(VAL, global_rank[p]), OutputsFolder)
    /\ done' = [done EXCEPT ![p] = @ \cup {"upload"}]
    /\ pc' = [pc EXCEPT ![p] = "exit_check"]
    /\ UNCHANGED << config, handler_calls,
                    exception, environ, old_environ, gate_environ, checkpoint_path,
                    trainer, resource_monitor, fit_calls, world_size, global_rank,
                    dl, outputs_dir, args_file, args_writers, files, requested,
                    temp_order, result_file >>

\* Variant: no process leaves through sys.exit().
ExitsNever(rank) == FALSE

\* Line 246: does the process leave through sys.exit()?
ExitsAfterTraining(rank) == rank # 0

\* Lines 246-248
ExitCheck(p) ==
    /\ p \in Procs(config)
    /\ pc[p] = "exit_check"
    /\ pc' = [pc EXCEPT ![p] =
                IF ExitsAfterTraining(global_rank[p]) THEN "exited" ELSE "cleanup"]
    /\ UNCHANGED << config, handler_calls,
                    exception, environ, old_environ, gate_environ, checkpoint_path,
                    trainer, resource_monitor, done, fit_calls, world_size,
                    global_rank, dl, outputs_dir, args_file, args_writers, files,
                    uploaded, requested, temp_order, result_file >>

\* ---------------------------------------- lines 250-256: rank 0 cleans up
\* Variant: os.environ.update(old_environ) without the clear() before it.
UpdateWithoutClear(env, old) == Update(env, old)

\* os.environ.clear(); os.environ.update(old_environ)
RestoreEnviron(env, old) == Update(EmptyEnviron, old)

CleanupAndRestore(p) ==
    /\ p \in Procs(config)
    /\ pc[p] = "cleanup"
    /\ done' = [done EXCEPT ![p] = @ \cup {"cleanup_checkpoint_folder", "restore_environ"}]
    /\ environ' = [environ EXCEPT ![p] = RestoreEnviron(@, old_environ[p])]
    /\ pc' = [pc EXCEPT ![p] =
                IF DownloadCondition(config, world_size[p]) THEN "download"
                ELSE IF ConcatenateCondition(config, world_size[p]) THEN "concatenate"
                ELSE "results"]
    /\ UNCHANGED << config, handler_calls,
                    exception, old_environ, gate_environ, checkpoint_path, trainer,
                    resource_monitor, fit_calls, world_size, global_rank, dl,
                    outputs_dir, args_file, args_writers, files, uploaded,
                    requested, temp_order, result_file >>

\* ------------------------------------- lines 263-266: rank 0 downloads
\* The loop runs over rank in range(world_size), then over the two modes:
\* iteration i handles rank i div 2 and mode i mod 2.
DownloadRank(i) == i \div 2
DownloadMode(i) == Modes[(i % 2) + 1]

\* Line 265
DownloadFile(i) ==
    DownloadMode(i) \o "/" \o get_subject_output_file_per_rank(DownloadRank(i))

\* Line 266: the name asked of the run.
DownloadName(i) == TEMP_PREFIX \o DownloadFile(i)

\* One iteration of the loop: the run has the file, it is written to disk.
Download(p) ==
    /\ p \in Procs(config)
    /\ pc[p] = "download"
    /\ DownloadName(dl[p]) \in DOMAIN uploaded
    /\ requested' = Append(requested, DownloadName(dl[p]))
    /\ LET dst == Under(OutputsFolder, DownloadFile(dl[p]))
           fs == files[Node(p)]
       IN  files' = [files EXCEPT ![Node(p)] =
                        [k \in (DOMAIN fs) \cup {dst} |->
                            IF k = dst THEN uploaded[DownloadName(dl[p])] ELSE fs[k]]]
    /\ dl' = [dl EXCEPT ![p] = @ + 1]
    /\ pc' = [pc EXCEPT ![p] =
                IF dl[p] + 1 = 2 * world_size[p] THEN "concatenate" ELSE "download"]
    /\ UNCHANGED << config, handler_calls,
                    exception, environ, old_environ, gate_environ, checkpoint_path,
                    trainer, resource_monitor, done, fit_calls, world_size,
                    global_rank, outputs_dir, args_file, args_writers, uploaded,
                    temp_order, result_file >>

\* One iteration of the loop: the run has no file of that name, download_file
\* raises, and nothing in model_train catches it.
DownloadRaises(p) ==
    /\ p \in Procs(config)
    /\ pc[p] = "download"
    /\ DownloadName(dl[p]) \notin DOMAIN uploaded
    /\ requested' = Append(requested, DownloadName(dl[p]))
    /\ exception' = [exception EXCEPT ![p] = "download"]
    /\ pc' = [pc EXCEPT ![p] = "raised"]
    /\ UNCHANGED << config, handler_calls,
                    environ, old_environ, gate_environ, checkpoint_path,
                    trainer, resource_monitor, done, fit_calls, world_size,
                    global_rank, dl, outputs_dir, args_file, args_writers, files,
                    uploaded, temp_order, result_file >>

\* ---------------------------------- lines 267-278: rank 0 concatenates
\* (outputs_folder / mode).rglob(SUBJECT_OUTPUT_PER_RANK_PREFIX + "*")
TempFiles(fs, mode) ==
    { k \in DOMAIN fs :
        StartsWith(k, Under(OutputsFolder \o <<mode>>, SUBJECT_OUTPUT_PER_RANK_PREFIX)) }

\* The orders in which a directory listing can give a set of files.
Orders(S) ==
    { o \in [1 .. Cardinality(S) -> S] :
        \A i, j \in 1 .. Cardinality(S) : o[i] = o[j] => i = j }

\* Path.write_text(data): the file holds data and nothing else.
write_text(file, data) == [exists |-> TRUE, text |-> data]

\* Line 278: the text of a file without its first line.
WithoutHeader(contents) ==
    JoinLines(SubSeq(SplitLines(contents), 2, Len(SplitLines(contents))))

\* Lines 271-278: the result file after the files of order[1..n] were handled.
RECURSIVE ConcatenateLoop(_, _, _, _)
ConcatenateLoop(fs, order, n, result) ==
    IF n = 0 THEN result
    ELSE LET before == ConcatenateLoop(fs, order, n - 1, result)
             temp_file_contents == fs[order[n]]
         IN  IF n - 1 = 0
             THEN write_text(before, temp_file_contents)
             ELSE write_text(before, WithoutHeader(temp_file_contents))

Concatenate(p) ==
    /\ p \in Procs(config)
    /\ pc[p] = "concatenate"
    /\ \E ot \in Orders(TempFiles(files[Node(p)], TRAIN)),
          ov \in Orders(TempFiles(files[Node(p)], VAL)) :
          /\ temp_order' = [m \in {TRAIN, VAL} |-> IF m = TRAIN THEN ot ELSE ov]
          /\ result_file' = [m \in {TRAIN, VAL} |->
                ConcatenateLoop(files[Node(p)], IF m = TRAIN THEN ot ELSE ov,
                                Cardinality(TempFiles(files[Node(p)], m)),
                                result_file[m])]
    /\ done' = [done EXCEPT ![p] = @ \cup {"concatenate"}]
    /\ pc' = [pc EXCEPT ![p] = "results"]
    /\ UNCHANGED << config, handler_calls,
                    exception, environ, old_environ, gate_environ, checkpoint_path,
                    trainer, resource_monitor, fit_calls, world_size, global_rank,
                    dl, outputs_dir, args_file, args_writers, files, uploaded,
                    requested >>

\* -------------------------------------------- lines 280-307: the results
\* Variant: the checkpoint handler is not told.
HandlerNotTold(calls) == calls

\* Line 292: checkpoint_handler.additional_training_done()
TellHandler(calls) == Append(calls, "additional_training_done")

\* Lines 280-292: build the results, tell the checkpoint handler.
AdditionalTrainingDone(p) ==
    /\ p \in Procs(config)
    /\ pc[p] = "results"
    /\ handler_calls' = [handler_calls EXCEPT ![p] = TellHandler(@)]
    /\ done' = [done EXCEPT ![p] = @ \cup {"results", "additional_training_done"}]
    /\ pc' = [pc EXCEPT ![p] = "kill_monitor"]
    /\ UNCHANGED << config, exception, environ, old_environ, gate_environ, checkpoint_path,
                    trainer, resource_monitor, fit_calls, world_size, global_rank,
                    dl, outputs_dir, args_file, args_writers, files, uploaded,
                    requested, temp_order, result_file >>

\* Variant: the monitor is left running.
KillMonitorNever(monitor) == monitor

\* Lines 299-305: if resource_monitor: ... resource_monitor.kill()
KillMonitor(monitor) == IF monitor = "running" THEN "killed" ELSE monitor

\* Lines 294-307: kill the resource monitor, return the results.
KillMonitorAndReturn(p) ==
    /\ p \in Procs(config)
    /\ pc[p] = "kill_monitor"
    /\ resource_monitor' = [resource_monitor EXCEPT ![p] = KillMonitor(@)]
    /\ pc' = [pc EXCEPT ![p] = "returned"]
    /\ UNCHANGED << config, handler_calls,
                    exception, environ, old_environ, gate_environ, checkpoint_path,
                    trainer, done, fit_calls, world_size, global_rank, dl,
                    outputs_dir, args_file, args_writers, files, uploaded,
                    requested, temp_order, result_file >>

\* ------------------------------------------------------- specification
\* Every process the bounds allow; the processes of the run are Procs(config).
AllProcs == 0 .. (MaxWorld - 1)

Next ==
    \E p \in AllProcs :
        \/ StartTraining(p)
        \/ CreateTrainer(p)
        \/ CreateTrainerRaises(p)
        \/ Bookkeeping(p)
        \/ FitStart(p)
        \/ FitReturn(p)
        \/ FitRaises(p)
        \/ CloseLoggers(p)
        \/ UploadTrain(p)
        \/ UploadVal(p)
        \/ ExitCheck(p)
        \/ CleanupAndRestore(p)
        \/ Download(p)
        \/ DownloadRaises(p)
        \/ Concatenate(p)
        \/ AdditionalTrainingDone(p)
        \/ KillMonitorAndReturn(p)

Spec == Init /\ [][Next]_vars

\* create_lightning_trainer on its own: the launching process of a run on one
\* node goes as far as the creation of the trainer.
InitTrainer == InitFor(TrainerConfigs)

NextTrainer ==
    \/ StartTraining(0)
    \/ CreateTrainer(0)
    \/ CreateTrainerRaises(0)

SpecTrainer == InitTrainer /\ [][NextTrainer]_vars

\* ====================================================== the properties
\* Helpers of the statements below.
Count(seq, x) == Cardinality({ i \in 1 .. Len(seq) : seq[i] = x })
RECURSIVE SumRows(_, _, _)
SumRows(fs, order, n) ==
    IF n = 0 THEN 0
    ELSE SumRows(fs, order, n - 1) + (Len(SplitLines(fs[order[n]])) - 1)
\* The processes that have run the concatenation loop.
Concatenated == { p \in Procs(config) : "concatenate" \in done[p] }
\* The lines of the final metrics file of a mode, and those that are data.
ResultLines(m) == SplitLines(result_file[m].text)
IsData(line) == line # HEADER
DataLines(lines) == SelectSeq(lines, IsData)

\* C1: after the concatenation loop, for each mode with n >= 1 per-rank files,
\* the final metrics file starts with the header line of the first per-rank
\* file, and that header line occurs exactly once in it.
C1_HeaderKeptOnce ==
    \A p \in Concatenated : \A m \in {TRAIN, VAL} :
        Len(temp_order[m]) >= 1 =>
            LET first_header == SplitLines(files[Node(p)][temp_order[m][1]])[1]
            IN  /\ result_file[m].exists
                /\ Len(ResultLines(m)) >= 1
                /\ ResultLines(m)[1] = first_header
                /\ Count(ResultLines(m), first_header) = 1

\* C2: after the concatenation loop, for each mode, every data row of every
\* per-rank file is in the final metrics file exactly once, and the final
\* file has as many data rows as the per-rank files have together.
C2_AllRowsOnce ==
    \A p \in Concatenated : \A m \in {TRAIN, VAL} :
        Len(temp_order[m]) >= 1 =>
            /\ \A i \in 1 .. Len(temp_order[m]) :
                 LET rows == DataLines(SplitLines(files[Node(p)][temp_order[m][i]]))
                 IN  \A j \in 1 .. Len(rows) : Count(ResultLines(m), rows[j]) = 1
            /\ Len(DataLines(ResultLines(m))) =
                 SumRows(files[Node(p)], temp_order[m], Len(temp_order[m]))

\* What holds of the code for a single per-rank file: the final file is that
\* file, header and rows.
OneFileCopied ==
    \A p \in Concatenated : \A m \in {TRAIN, VAL} :
        Len(temp_order[m]) = 1 =>
            result_file[m] = [exists |-> TRUE, text |-> files[Node(p)][temp_order[m][1]]]

\* What the code leaves for several per-rank files: the last file handled,
\* without its header line and without the separator after its last line.
LastFileOnly ==
    \A p \in Concatenated : \A m \in {TRAIN, VAL} :
        Len(temp_order[m]) >= 2 =>
            result_file[m].text =
                WithoutHeader(files[Node(p)][temp_order[m][Len(temp_order[m])]])

\* The environment a process had when it entered model_train. Only launching
\* processes are asked: a worker never gets to restore its environment.
EnvironAtEntry(p) == LauncherEnviron(config, Node(p))

\* C3: whenever model_train has returned normally, the environment of the
\* process is exactly the snapshot taken on entry, before seeding and trainer
\* creation: nothing added, nothing missing, nothing changed.
C3_EnvironRestored ==
    \A p \in Procs(config) :
        pc[p] = "returned" =>
            /\ old_environ[p] = EnvironAtEntry(p)
            /\ DOMAIN environ[p] = DOMAIN old_environ[p]
            /\ \A k \in DOMAIN environ[p] : environ[p][k] = old_environ[p][k]

\* A process has returned from a distributed run whose fit added the DDP
\* variables, changed the seed and removed it again.
C3_Witness ==
    \E p \in Procs(config) :
        /\ pc[p] = "returned"
        /\ World(config) > 1
        /\ config.lightning_removes_seed
        /\ "PL_GLOBAL_SEED" \in DOMAIN environ[p]
        /\ "WORLD_SIZE" \notin DOMAIN environ[p]

\* The steps only the surviving rank-0 process runs after the exit test.
PostExitSteps ==
    {"cleanup_checkpoint_folder", "restore_environ", "concatenate",
     "additional_training_done", "results"}
PostExitPositions ==
    {"cleanup", "download", "concatenate", "results", "kill_monitor", "returned"}

\* C4: a process whose global rank is not 0 never gets past the exit test: it
\* runs no checkpoint cleanup, no environment restoration, no download, no
\* concatenation, no additional_training_done and returns no results; and
\* when it has exited, fit was called and has returned, its loggers are closed
\* and, where the upload condition holds, its two files are uploaded.
C4_NonZeroRanksExit ==
    \A p \in Procs(config) :
        global_rank[p] # 0 =>
            /\ pc[p] \notin PostExitPositions
            /\ done[p] \cap PostExitSteps = {}
            /\ dl[p] = 0
            /\ resource_monitor[p] # "killed"
            /\ pc[p] = "exited" =>
                 /\ fit_calls[p] = 1
                 /\ "close_loggers" \in done[p]
                 /\ (config.is_azureml_run /\ World(config) > 1
                        /\ config.kind = "Scalar") =>
                      /\ "upload" \in done[p]
                      /\ \A m \in {TRAIN, VAL} :
                           (TEMP_PREFIX \o m \o "/" \o SUBJECT_OUTPUT_PER_RANK_PREFIX
                              \o ToString(global_rank[p])) \in DOMAIN uploaded

\* A process of non-zero rank has exited after uploading, and rank 0 has
\* returned.
C4_Witness ==
    /\ \E p \in Procs(config) :
         global_rank[p] # 0 /\ pc[p] = "exited" /\ "upload" \in done[p]
    /\ \E q \in Procs(config) : pc[q] = "returned"

\* The rank-zero test of the claims, on an environment.
RankZeroEnviron(env) ==
    /\ "GLOBAL_RANK" \notin DOMAIN env
    /\ "LOCAL_RANK" \notin DOMAIN env
    /\ ("NODE_RANK" \notin DOMAIN env \/ env["NODE_RANK"] = "0")
\* The process is past the rank-zero test of line 208.
PastGate(p) == pc[p] = "fit" \/ fit_calls[p] > 0
BookkeepingNames ==
    {"write_args_file", "visualize_random_crops", "model_summary",
     "start_resource_monitor"}

\* C5: the bookkeeping steps (args.txt, crop visualisation, model summary,
\* resource monitor) run only in a process in whose environment, at the
\* rank-zero test, GLOBAL_RANK and LOCAL_RANK are unset and NODE_RANK is unset
\* or "0"; in such a process they have run when trainer.fit is called (args.txt
\* always, the others when their own condition holds), and in every other
\* process none of them ever runs.
C5_BookkeepingOnRankZeroOnly ==
    \A p \in Procs(config) :
        /\ ~PastGate(p) =>
             done[p] \cap BookkeepingNames = {} /\ resource_monitor[p] = "none"
        /\ (PastGate(p) /\ ~RankZeroEnviron(gate_environ[p])) =>
             done[p] \cap BookkeepingNames = {} /\ resource_monitor[p] = "none"
        /\ (PastGate(p) /\ RankZeroEnviron(gate_environ[p])) =>
             /\ "write_args_file" \in done[p]
             /\ "visualize_random_crops" \in done[p] <=> config.kind = "Segmentation"
             /\ "model_summary" \in done[p] <=> config.kind \in {"Segmentation", "Scalar"}
             /\ "start_resource_monitor" \in done[p]
                  <=> config.monitoring_interval_seconds > 0
             /\ (resource_monitor[p] # "none")
                  <=> config.monitoring_interval_seconds > 0

\* Two launching processes on two nodes are about to call fit: the one on
\* node 0 has done the bookkeeping, the one on node 1 (NODE_RANK "1") has not.
C5_Witness ==
    \E p, q \in Procs(config) :
        /\ pc[p] = "fit" /\ pc[q] = "fit"
        /\ "start_resource_monitor" \in done[p]
        /\ "visualize_random_crops" \in done[p]
        /\ "NODE_RANK" \in DOMAIN gate_environ[q]
        /\ gate_environ[q]["NODE_RANK"] # "0"
        /\ "LOCAL_RANK" \notin DOMAIN gate_environ[q]
        /\ done[q] \cap BookkeepingNames = {}

\* The process has left model_train: by return, by sys.exit() or by an
\* exception.
Left(p) == pc[p] \in {"returned", "exited", "raised"}
MonitorStarted(p) == "start_resource_monitor" \in done[p]

\* C6 as stated: in every execution of model_train that started a resource
\* monitor, the monitor is killed before the process leaves model_train.
C6_MonitorKilledOnEveryExit ==
    \A p \in Procs(config) :
        (MonitorStarted(p) /\ Left(p)) => resource_monitor[p] = "killed"

\* C6: a resource monitor is started only on rank zero and only when
\* monitoring_interval_seconds > 0; it is killed only after trainer.fit has
\* returned; and in every execution that started one and leaves model_train
\* without an exception, it is killed before the process leaves model_train.
C6_MonitorKilledOnNormalExit ==
    \A p \in Procs(config) :
        /\ MonitorStarted(p) <=> resource_monitor[p] # "none"
        /\ MonitorStarted(p) =>
             /\ RankZeroEnviron(gate_environ[p])
             /\ config.monitoring_interval_seconds > 0
        /\ resource_monitor[p] = "killed" =>
             /\ fit_calls[p] = 1
             /\ "close_loggers" \in done[p]
             /\ pc[p] = "returned"
        /\ (MonitorStarted(p) /\ pc[p] \in {"returned", "exited"}) =>
             resource_monitor[p] = "killed"

\* A process has returned and has killed the monitor it started.
C6_Witness ==
    \E p \in Procs(config) :
        MonitorStarted(p) /\ pc[p] = "returned" /\ resource_monitor[p] = "killed"

\* The names under which the ranks of the run keep their per-rank files in
\* the AzureML run: temp/<mode>/<per-rank file name>.
TempName(m, r) == "temp/" \o m \o "/" \o get_subject_output_file_per_rank(r)
ExpectedNames == { TempName(m, r) : m \in {TRAIN, VAL}, r \in Procs(config) }
\* An AzureML run of a ScalarLightning model with world_size > 1.
TransferRun ==
    config.is_azureml_run /\ World(config) > 1 /\ config.kind = "Scalar"
\* The process is past the upload step of lines 240-242.
PastUpload(p) ==
    "close_loggers" \in done[p] /\ pc[p] \notin {"upload_train", "upload_val"}
\* The process is past the download loop of lines 263-266.
PastDownload(p) == pc[p] \in {"concatenate", "results", "kill_monitor", "returned"}
Requested == { requested[i] : i \in 1 .. Len(requested) }
\* The names the ranks upload under, and the names the download loop of a
\* process with the given world_size runs over.
UploadNames ==
    { UploadName(csv_path(m, r), OutputsFolder) : m \in {TRAIN, VAL}, r \in Procs(config) }
LoopNames(ws) == { DownloadName(i) : i \in 0 .. (2 * ws - 1) }

\* C7: the upload condition and the download condition are the same: an
\* AzureML run with world_size > 1 and a ScalarLightning model. In such a run
\* every rank, rank 0 included, uploads its train and validation file under
\* temp/<mode>/<per-rank file name>, the download loop of rank 0 runs over
\* exactly these 2 * world_size names, each once, and only rank 0 downloads;
\* when rank 0 is through the loop it has asked for every name some rank
\* uploaded under and for no other. In any other run nothing is uploaded and
\* nothing is downloaded.
C7_UploadsMatchDownloads ==
    LET expected == ExpectedNames
        asked == Requested
        transfer == TransferRun
    IN  /\ UploadNames = expected
        /\ \A p \in Procs(config) :
             "close_loggers" \in done[p] =>
                /\ UploadCondition(config, world_size[p]) <=> transfer
                /\ DownloadCondition(config, world_size[p]) <=> transfer
                /\ transfer => LoopNames(world_size[p]) = expected
        /\ DOMAIN uploaded \subseteq expected
        /\ asked \subseteq expected
        /\ \A i, j \in 1 .. Len(requested) : requested[i] = requested[j] => i = j
        /\ \A p \in Procs(config) :
             dl[p] > 0 => global_rank[p] = 0 /\ dl[p] <= Len(requested)
        /\ ~transfer => DOMAIN uploaded = {} /\ requested = <<>>
        /\ transfer =>
             \A p \in Procs(config) :
                /\ PastUpload(p) =>
                     \A m \in {TRAIN, VAL} :
                        /\ TempName(m, global_rank[p]) \in DOMAIN uploaded
                        /\ uploaded[TempName(m, global_rank[p])] =
                             SubjectOutputText(m, global_rank[p], config.rows[global_rank[p]])
                /\ PastDownload(p) =>
                     /\ Len(requested) = 2 * World(config)
                     /\ asked = expected
                     /\ asked = DOMAIN uploaded

\* Rank 0 has returned from a run in which every rank uploaded two files and
\* rank 0 downloaded all of them.
C7_Witness ==
    /\ TransferRun
    /\ \E p \in Procs(config) : pc[p] = "returned" /\ global_rank[p] = 0
    /\ Len(requested) = 2 * World(config)
    /\ Cardinality(DOMAIN uploaded) = 2 * World(config)

\* The steps of model_train after trainer.fit.
PostTrainingSteps ==
    {"close_loggers", "upload", "cleanup_checkpoint_folder", "restore_environ",
     "concatenate", "additional_training_done", "results"}

\* C8: trainer.fit is called at most once in a call of model_train; when the
\* trainer creation or trainer.fit raises, the process leaves model_train with
\* that exception and has run none of the post-training steps: no checkpoint
\* cleanup, no download, no aggregation, no additional_training_done, no
\* results.
C8_NoRetryNoRecovery ==
    \A p \in Procs(config) :
        /\ fit_calls[p] <= 1
        /\ (exception[p] # "none") <=> (pc[p] = "raised")
        /\ exception[p] \in {"create_trainer", "fit"} =>
             /\ pc[p] = "raised"
             /\ done[p] \cap PostTrainingSteps = {}
             /\ dl[p] = 0
             /\ resource_monitor[p] # "killed"
             /\ world_size[p] = 0
             /\ (exception[p] = "create_trainer") <=> (fit_calls[p] = 0)
             /\ p = 0 => /\ requested = <<>>
                         /\ \A m \in {TRAIN, VAL} : ~result_file[m].exists

\* trainer.fit has raised in the process that started a resource monitor.
C8_Witness ==
    \E p \in Procs(config) :
        exception[p] = "fit" /\ fit_calls[p] = 1 /\ MonitorStarted(p)

\* C9: the trainer has exactly two checkpoint callbacks, both writing to the
\* checkpoint folder: the first saves the last checkpoint, the second is the
\* recovery callback with period recovery_checkpoint_save_interval; and it
\* resumes from a checkpoint exactly if the checkpoint handler gave a recovery
\* path, then from the string of that path.
C9_TrainerCheckpoints ==
    \A p \in Procs(config) :
        trainer[p].created =>
            /\ Len(trainer[p].callbacks) = 2
            /\ \A i \in 1 .. 2 : trainer[p].callbacks[i].dirpath = "outputs/checkpoints"
            /\ trainer[p].callbacks[1].save_last
            /\ ~trainer[p].callbacks[2].save_last
            /\ trainer[p].callbacks[2].filename = "recovery"
            /\ trainer[p].callbacks[2].period = config.recovery_checkpoint_save_interval
            /\ checkpoint_path[p] = config.recovery_path
            /\ (trainer[p].resume_from_checkpoint # "None") <=> (config.recovery_path # <<>>)
            /\ config.recovery_path = <<"outputs", "checkpoints", "recovery.ckpt">> =>
                 trainer[p].resume_from_checkpoint = "outputs/checkpoints/recovery.ckpt"

\* A trainer was created for a run that has a recovery checkpoint.
C9_Witness ==
    \E p \in Procs(config) :
        /\ trainer[p].created
        /\ config.recovery_path # <<>>
        /\ trainer[p].resume_from_checkpoint = "outputs/checkpoints/recovery.ckpt"

\* C10: before trainer.fit is called, the rank-zero process has written
\* args.txt in the outputs folder, which then exists: its content is
\* str(config) when config is a DeepLearningConfig and str(lightning_container)
\* otherwise, whatever args.txt held before; no other process writes it.
C10_ArgsFile ==
    /\ Cardinality(args_writers) <= 1
    /\ \A p \in Procs(config) :
         /\ p \in args_writers <=> (PastGate(p) /\ RankZeroEnviron(gate_environ[p]))
         /\ p \in args_writers =>
              /\ outputs_dir[Node(p)]
              /\ args_file[Node(p)].exists
              /\ args_file[Node(p)].text =
                   IF config.kind \in {"Segmentation", "Scalar"}
                   THEN "str(config)" ELSE "str(lightning_container)"
    /\ \A n \in Nodes(config) :
         (\A p \in args_writers : Node(p) # n) =>
            args_file[n] \in {[exists |-> FALSE, text |-> ""],
                              [exists |-> TRUE, text |-> "stale"]}

\* In a run of a container without DeepLearningConfig, on several processes,
\* all of which are past the rank-zero test, args.txt holds the string of the
\* container.
C10_Witness ==
    /\ config.kind = "Container"
    /\ World(config) > 1
    /\ \A p \in Procs(config) : PastGate(p)
    /\ \E p \in args_writers : args_file[Node(p)].text = "str(lightning_container)"

\* The smaller of two numbers.
Min(a, b) == IF a <= b THEN a ELSE b

\* C11: the number of GPUs passed to the trainer is 0 when use_gpu is false,
\* otherwise min(device count, max_num_gpus) when max_num_gpus >= 0 and the
\* device count when max_num_gpus < 0; it is never negative and never larger
\* than the device count; the accelerator is "ddp" exactly if that number is
\* greater than 1, and None otherwise.
C11_GpusAndAccelerator ==
    \A p \in Procs(config) :
        trainer[p].created =>
            LET g == trainer[p].gpus
                d == config.device_count
                m == config.max_num_gpus
            IN  /\ ~config.use_gpu => g = 0
                /\ (config.use_gpu /\ m >= 0) => g = Min(d, m)
                /\ (config.use_gpu /\ m < 0) => g = d
                /\ 0 <= g /\ g <= d
                /\ (trainer[p].accelerator = "ddp") <=> (g > 1)
                /\ trainer[p].accelerator \in {"ddp", "None"}

\* A trainer was created on a machine with GPUs that max_num_gpus = 0 takes
\* away completely.
C11_Witness ==
    \E p \in Procs(config) :
        /\ trainer[p].created
        /\ config.use_gpu /\ config.device_count > 1 /\ config.max_num_gpus = 0
        /\ trainer[p].gpus = 0
        /\ trainer[p].accelerator = "None"

\* C12: the precision of the trainer is 16 exactly if the number of GPUs it
\* gets is greater than 0 and use_mixed_precision is set, and 32 in every other
\* case, on CPU whatever use_mixed_precision says; deterministic is
\* pl_deterministic and benchmark its negation, so exactly one of them is set.
C12_PrecisionAndDeterminism ==
    \A p \in Procs(config) :
        trainer[p].created =>
            /\ (trainer[p].precision = 16)
                 <=> (trainer[p].gpus > 0 /\ config.use_mixed_precision)
            /\ trainer[p].precision \in {16, 32}
            /\ trainer[p].gpus = 0 => trainer[p].precision = 32
            /\ trainer[p].deterministic = config.pl_deterministic
            /\ trainer[p].benchmark = ~config.pl_deterministic
            /\ trainer[p].deterministic # trainer[p].benchmark

\* A trainer was created for CPU with use_mixed_precision set and without
\* pl_deterministic.
C12_Witness ==
    \E p \in Procs(config) :
        /\ trainer[p].created
        /\ trainer[p].gpus = 0
        /\ config.use_mixed_precision
        /\ trainer[p].precision = 32
        /\ ~config.pl_deterministic
        /\ trainer[p].benchmark

\* How often a process has called a method of checkpoint_handler.
Calls(p, name) ==
    Cardinality({ i \in 1 .. Len(handler_calls[p]) : handler_calls[p][i] = name })

\* The steps of model_train between trainer.fit and the results.
StepsBeforeResults ==
    {"close_loggers", "cleanup_checkpoint_folder", "restore_environ"}

\* C13: a process that has returned from model_train has called
\* additional_training_done() exactly once; the call comes after trainer.fit,
\* cleanup_checkpoint_folder and the restoration of the environment, and
\* before the resource monitor is killed and the results are returned; no
\* process calls it without having come back from trainer.fit;
\* get_recovery_path_train() is called before the trainer is created.
C13_HandlerCallOrder ==
    \A p \in Procs(config) :
        /\ pc[p] = "returned" => Calls(p, "additional_training_done") = 1
        /\ Calls(p, "additional_training_done") <= 1
        /\ Calls(p, "additional_training_done") >= 1 =>
             /\ pc[p] \in {"kill_monitor", "returned"}
             /\ fit_calls[p] = 1
             /\ StepsBeforeResults \subseteq done[p]
             /\ environ[p] = old_environ[p]
        /\ Calls(p, "additional_training_done") = 0 =>
             /\ pc[p] # "returned"
             /\ resource_monitor[p] # "killed"
        /\ pc[p] = "kill_monitor" => resource_monitor[p] # "killed"
        /\ (trainer[p].created \/ pc[p] = "create_trainer") =>
             /\ Len(handler_calls[p]) >= 1
             /\ handler_calls[p][1] = "get_recovery_path_train"
        /\ (pc[p] = "create_trainer" /\ exception[p] = "none") =>
             /\ ~trainer[p].created
             /\ handler_calls[p] = <<"get_recovery_path_train">>

\* A process of a distributed run has returned, with its monitor killed.
C13_Witness ==
    \E p \in Procs(config) :
        /\ World(config) > 1
        /\ pc[p] = "returned"
        /\ resource_monitor[p] = "killed"
        /\ handler_calls[p] = <<"get_recovery_path_train", "additional_training_done">>

\* C14: whenever rank 0 asks the run for the file temp/<mode>/<file of rank
\* r>, rank r has uploaded a file under that name before. Uploaded files stay,
\* so that every name asked for so far is a name of the run.
C14_DownloadAfterUpload ==
    \A i \in 1 .. Len(requested) : requested[i] \in DOMAIN uploaded

\* The environment in which a process of a run reaches the rank-zero test of
\* line 208: a launching process in the seeded environment of its node, a
\* spawned worker in the seeded copy of its launcher's DDP environment.
GateEnvironOf(c, p) ==
    LET node == NodeOf(c, p)
        launcherEnv == seed_everything(LauncherEnviron(c, node), c.random_seed)
    IN  IF IsLauncher(c, p)
        THEN launcherEnv
        ELSE seed_everything(
                 WorkerEnviron(c, DdpEnviron(c, launcherEnv, node), node, LocalOf(c, p)),
                 c.random_seed)

\* The run of the present configuration on every number of nodes and GPUs.
Layouts ==
    { [config EXCEPT !.num_nodes = n, !.device_count = d] :
        n \in 1 .. MaxNodes, d \in 0 .. MaxDevices }

\* The processes that have found is_rank_zero() true at line 208.
RankZeroAtGate ==
    { p \in Procs(config) : PastGate(p) /\ RankZeroEnviron(gate_environ[p]) }

\* The process has come back from trainer.fit.
BackFromFit(p) == pc[p] = "close_loggers" \/ "close_loggers" \in done[p]

\* C15: the two rank tests agree. Among the processes of a run at most one
\* finds is_rank_zero() true before training, and exactly one when all of them
\* have passed the test; after training that process, and no other, has
\* lightning_model.global_rank 0. So a process that leaves through the
\* sys.exit() of the non-zero ranks has started no resource monitor and has
\* not written args.txt, and the process that goes on to aggregate the outputs
\* is the one that wrote args.txt. The agreement of the two tests holds on
\* every number of nodes and of GPUs per node (a fact of the configuration
\* alone, looked at when the run begins).
C15_RankTestsAgree ==
    /\ Cardinality(RankZeroAtGate) <= 1
    /\ (\A p \in Procs(config) : PastGate(p)) => Cardinality(RankZeroAtGate) = 1
    /\ \A p \in Procs(config) :
         /\ pc[p] = "fit" => gate_environ[p] = GateEnvironOf(config, p)
         /\ BackFromFit(p) =>
              (RankZeroEnviron(gate_environ[p]) <=> global_rank[p] = 0)
         /\ pc[p] = "exited" =>
              /\ ~RankZeroEnviron(gate_environ[p])
              /\ resource_monitor[p] = "none"
              /\ p \notin args_writers
         /\ pc[p] \in PostExitPositions =>
              /\ RankZeroEnviron(gate_environ[p])
              /\ args_writers = {p}
    /\ (\A p \in Procs(config) : handler_calls[p] = <<>>) =>
         \A c \in Layouts :
            /\ \A p \in Procs(c) :
                 is_rank_zero(GateEnvironOf(c, p)) <=> LightningGlobalRank(c, p) = 0
            /\ Cardinality({ p \in Procs(c) : is_rank_zero(GateEnvironOf(c, p)) }) = 1

\* In a run with a resource monitor and one worker beside the launching
\* process, the worker, with LOCAL_RANK set at the test and global rank 1, has
\* exited, and the launching process has written args.txt and returned.
C15_Witness ==
    \E p, q \in Procs(config) :
        /\ config.monitoring_interval_seconds > 0
        /\ Node(p) = Node(q)
        /\ pc[p] = "returned" /\ global_rank[p] = 0 /\ args_writers = {p}
        /\ MonitorStarted(p)
        /\ pc[q] = "exited" /\ global_rank[q] = 1
        /\ "LOCAL_RANK" \in DOMAIN gate_environ[q]
        /\ ~MonitorStarted(q)

====
